---- MODULE Spec2Model ----
(***************************************************************************)
(* Model of agl_frame_extractor/extractor.py, class VideoFrameExtractor:   *)
(* the batch entry point extract_frames_and_metadata, transcode_video,     *)
(* frames_already_extracted and process_video, over an abstract file       *)
(* system holding the output folder.                                       *)
(*                                                                         *)
(* File names are sequences of tokens (<<"a", ".mov">> is "a.mov"), so     *)
(* that os.path.splitext, the "_transcoded.mp4", "_frames" and             *)
(* "_metadata.json" suffixes are computed as the code computes them. A     *)
(* path is a record of a directory (a sequence of components, starting     *)
(* with "/" when absolute) and a file name. The files of the output folder *)
(* are kept by name.                                                       *)
(*                                                                         *)
(* Spec is the batch on an extractor constructed with the default          *)
(* use_multithreading, SpecAnyThreading the batch with either value of it, *)
(* and SpecTranscode is transcode_video called alone, the output folder    *)
(* being the input folder or another one.                                  *)
(***************************************************************************)
EXTENDS Integers, Sequences, FiniteSets, TLC

\* ------------------------------------------------------------------ bounds
MaxFrames == 2
MaxRuns == 2
MaxFaults == 1
MaxCalls == 2

\* ------------------------------------------------------- names and paths
\* The contents of the input folder the model starts from: no file, one video,
\* one video beside a file that is none, two videos with one stem, two videos.
InputFolders ==
    { {}, {<<"clip", ".mov">>}, {<<"c", ".txt">>, <<"b", ".MOV">>},
      {<<"a", ".mov">>, <<"a", ".mp4">>}, {<<"a", ".mov">>, <<"b", ".MOV">>} }

\* The values of the image_format constructor argument (the default), and the
\* suffix of the files another image_format has left in a frames directory.
ImageFormats == {"jpg"}
OtherFormat == "png"

\* str.lower() on one token of a name.
Lower(tok) == IF tok = ".MOV" THEN ".mov" ELSE IF tok = ".MP4" THEN ".mp4" ELSE tok

\* f.lower().endswith((".mov", ".mp4"))
IsVideoFile(f) == Len(f) > 0 /\ Lower(f[Len(f)]) \in {".mov", ".mp4"}

\* The tokens os.path.splitext takes for an extension.
ExtTokens == {".mov", ".MOV", ".mp4", ".MP4", ".txt", ".json"}

\* os.path.splitext(os.path.basename(mov_file))[0]
SplitextRoot(name) ==
    IF Len(name) > 1 /\ name[Len(name)] \in ExtTokens
    THEN SubSeq(name, 1, Len(name) - 1)
    ELSE name

\* The input_folder constructor argument (a relative path), and the values of
\* output_folder: an absolute and a relative path.
InputFolder == <<"in">>
OutputFolders == { <<"/", "out">>, <<"out">> }

\* os.path.isabs, os.path.basename (and Path(...).name), os.path.join.
IsAbs(path) == Len(path.dir) > 0 /\ path.dir[1] = "/"
Basename(path) == path.name
Join(folder, path) ==
    IF IsAbs(path) THEN path ELSE [dir |-> folder \o path.dir, name |-> path.name]

\* os.path.join(self.input_folder, video_file), line 77
InputPath(video_file) == Join(InputFolder, [dir |-> <<>>, name |-> video_file])

\* TranscodedIn with f"{base}.mp4" for f"{base}_transcoded.mp4".
TranscodedInSameStem(folder, mov_file) ==
    Join(folder, [dir |-> <<>>, name |-> SplitextRoot(Basename(mov_file)) \o <<".mp4">>])

\* os.path.join(self.output_folder, f"{base}_transcoded.mp4"), lines 104-105
TranscodedIn(folder, mov_file) ==
    Join(folder, [dir |-> <<>>,
                  name |-> SplitextRoot(Basename(mov_file)) \o <<"_transcoded", ".mp4">>])

\* Lines 164-168: the path process_video opens.
VideoPath(mov_file) == IF IsAbs(mov_file) THEN mov_file ELSE Join(InputFolder, mov_file)

\* f"{video_name}_frames" and f"{video_name}_metadata.json", the names of the
\* frames directory and the metadata file in the output folder.
FramesDirOf(video_name) == video_name \o <<"_frames">>
MetadataFileOf(video_name) == video_name \o <<"_metadata", ".json">>

\* f"frame_{frame_number}.{self.image_format}"
FrameFile(frame_number, image_format) ==
    [stem |-> "frame_", number |-> frame_number, suffix |-> image_format]

\* ------------------------------------------------------- video contents
\* What the decoder sees in a video file: whether it opens, how many frames
\* it decodes, and what the container reports as frame count, frame rate and
\* duration in milliseconds. The reported count is an estimate, here off by at
\* most one.
FpsValues == {30}
DurationValues == {2000}
Unopenable == [opens |-> FALSE, frames |-> 0, count |-> 0, fps |-> 0, duration |-> 0]
VideoContents ==
    { v \in [opens : {TRUE}, frames : 0..MaxFrames, count : 0..MaxFrames, fps : FpsValues,
             duration : DurationValues] :
        v.count \in {v.frames - 1, v.frames, v.frames + 1} }
    \cup {Unopenable}

\* cap.get(CAP_PROP_FRAME_COUNT), cap.get(CAP_PROP_FPS), cap.get(CAP_PROP_POS_MSEC):
\* 0 on a capture that did not open; CAP_PROP_POS_MSEC is the time stamp of the
\* next frame to be read, not the duration of the stream.
CapFrameCount(c) == IF c.opens THEN c.count ELSE 0
CapFps(c) == IF c.opens THEN c.fps ELSE 0
CapPosMsec(c, pos) == IF c.opens /\ c.fps > 0 THEN (pos * 1000) \div c.fps ELSE 0

\* ------------------------------------------------------------- metadata
\* What a metadata file holds: "ok" is the JSON object process_video dumps,
\* "nofield" a JSON object without total_frames, "nonobject" valid JSON that
\* is no object, "garbage" text json.load rejects, "unreadable" a file whose
\* open or read fails with OSError.
MetadataKinds == {"ok", "nofield", "nonobject", "garbage", "unreadable"}
MetadataRecord(total, fps, duration) ==
    [kind |-> "ok", total_frames |-> total, fps |-> fps, duration |-> duration]
ForeignMetadata(kind) ==
    [kind |-> kind, total_frames |-> 0, fps |-> 0, duration |-> 0]

VARIABLES
    input_files,      \* the names in the input folder
    output_folder,    \* self.output_folder
    output_exists,    \* whether the output folder exists
    image_format,     \* self.image_format of the running extractor
    use_multithreading, \* self.use_multithreading, stored at line 56 and read nowhere
    run,              \* number of extract_frames_and_metadata calls started
    pc,               \* where extract_frames_and_metadata stands
    outcome,          \* how the last call ended: "none", "returned", "raised"
    video_files,      \* the list built at lines 68-72
    futures,          \* the list of transcoded paths, lines 75-79
    idx,              \* position of the running loop in its list
    outVideos,        \* transcoded files of the output folder: path -> content
    framesDirs,       \* frames directories: path -> (file name -> frame)
    metadataFiles,    \* metadata files: path -> metadata
    capState,         \* the VideoCapture of process_video: "none", "open",
                      \* "unopened" (created on a file that does not open), "released"
    capPos,           \* index of the next frame cap.read() returns
    frame_number,     \* the local frame_number of process_video
    faults,           \* number of outside events so far: failed writes, failed
                      \* ffmpeg runs, files changed by somebody else
    hist              \* history of the run, for stating the properties

vars == << input_files, output_folder, output_exists, image_format, use_multithreading, run, pc, outcome, video_files, futures, idx,
           outVideos, framesDirs, metadataFiles, capState, capPos, frame_number,
           faults, hist >>

\* ------------------------------------------------------------- helpers
\* f with the value v at key k, added or replaced (writing a file).
Put(f, k, v) == (k :> v) @@ f

\* f without the key k (deleting a file).
Drop(f, k) == [x \in DOMAIN f \ {k} |-> f[x]]

\* The orders os.listdir may return the names of S in.
RECURSIVE Orders(_)
Orders(S) ==
    IF S = {} THEN {<<>>}
    ELSE UNION { { <<x>> \o o : o \in Orders(S \ {x}) } : x \in S }

\* len(list(frames_dir.glob(f"*.{self.image_format}")))
CountFrames(dir, format) == Cardinality({n \in DOMAIN dir : n.suffix = format})

\* The frames directory and the metadata file of the video exist, the
\* metadata is a record with total_frames, and the directory holds that many
\* files of the image format.
CountsAgree(video_name) ==
    /\ FramesDirOf(video_name) \in DOMAIN framesDirs
    /\ MetadataFileOf(video_name) \in DOMAIN metadataFiles
    /\ metadataFiles[MetadataFileOf(video_name)].kind = "ok"
    /\ CountFrames(framesDirs[FramesDirOf(video_name)], image_format)
         = metadataFiles[MetadataFileOf(video_name)].total_frames

\* The history kept from one run to the next, and the part reset at each run.
\* extractedBefore are the videos an earlier run extracted to the end and whose
\* output nobody else changed since; complete are those of them whose counts
\* agree when the run starts. interruptedBefore is the extraction the run
\* before this one was interrupted in, its output not changed since.
NoJob == [path |-> <<>>, phase |-> "none", log |-> <<>>]
NewRunHist(h) ==
    LET before == h.extractedBefore \cup h.extractedNow IN
    [h EXCEPT !.ffmpeg = {}, !.ffmpegFailed = {}, !.transcoded = {},
              !.processed = {}, !.skipped = {}, !.metaWrites = {},
              !.frameWrites = {}, !.extractedNow = {},
              !.extractedBefore = before,
              !.complete = {r.path : r \in {x \in before : CountsAgree(x.path)}},
              !.interruptedNow = {},
              !.interruptedBefore = h.interruptedNow,
              !.job = NoJob]

\* The state after VideoFrameExtractor(input_folder, output_folder,
\* use_multithreading=multithreading, image_format=...), lines 54-58, with an
\* empty output folder.
Construct(multithreading) ==
    /\ input_files \in InputFolders
    /\ output_folder \in OutputFolders
    /\ output_exists = FALSE
    /\ image_format \in ImageFormats
    /\ use_multithreading = multithreading
    /\ run = 0
    /\ pc = "idle"
    /\ outcome = "none"
    /\ video_files = <<>>
    /\ futures = <<>>
    /\ idx = 1
    /\ outVideos = <<>>
    /\ framesDirs = <<>>
    /\ metadataFiles = <<>>
    /\ capState = "none"
    /\ capPos = 0
    /\ frame_number = 0
    /\ faults = 0
    /\ hist = [calls |-> {}, returned |-> {}, ffmpeg |-> {}, ffmpegFailed |-> {},
               transcoded |-> {}, processed |-> {}, skipped |-> {},
               metaWrites |-> {}, frameWrites |-> {}, extractedNow |-> {},
               extractedBefore |-> {}, complete |-> {},
               interruptedNow |-> {}, interruptedBefore |-> {}, job |-> NoJob]

\* The extractor as constructed by default (use_multithreading=False, line 40),
\* and with either value of use_multithreading.
Init == Construct(FALSE)
InitAnyThreading == \E multithreading \in BOOLEAN : Construct(multithreading)

\* ------------------------------------- extract_frames_and_metadata, 60-73
\* A (new) extractor starts extract_frames_and_metadata: it creates the output
\* folder if missing and lists the video files of the input folder. The order
\* of os.listdir is arbitrary, and the same each time for a folder that has
\* not changed.
StartRun ==
    /\ pc = "idle"
    /\ run < MaxRuns
    /\ run' = run + 1
    /\ output_exists' = TRUE
    /\ video_files' \in IF run = 0
                        THEN Orders({f \in input_files : IsVideoFile(f)})
                        ELSE {video_files}
    /\ futures' = <<>>
    /\ idx' = 1
    /\ pc' = "transcode"
    /\ outcome' = "none"
    /\ capState' = "none"
    /\ hist' = NewRunHist(hist)
    /\ UNCHANGED << input_files, output_folder, image_format, use_multithreading, outVideos, framesDirs, metadataFiles, capPos,
                    frame_number, faults >>

\* ------------------------------------------------ transcode_video, 86-127
\* Lines 104-105 for the running extractor.
TranscodedPath(mov_file) == TranscodedIn(output_folder, mov_file)

\* os.path.exists on a video path: the output folder's videos are the ones kept.
VideoExists(path) == path.dir = output_folder /\ path.name \in DOMAIN outVideos

\* What a transcode_video call that raised has returned.
NoPath == [dir |-> <<>>, name |-> <<>>]

\* The record of one transcode_video call.
TranscodeCall(mov_file, existed, invoked, result) ==
    [input |-> mov_file, again |-> \E r \in hist.returned : r[1] = mov_file,
     existed |-> existed, invoked |-> invoked, result |-> result]

\* Lines 108-109: the transcoded file exists and is returned as it is.
TranscodeExisting(mov_file) ==
    LET transcoded_path == TranscodedPath(mov_file) IN
    /\ VideoExists(transcoded_path)
    /\ futures' = Append(futures, transcoded_path)
    /\ idx' = idx + 1
    /\ hist' = [hist EXCEPT
                  !.calls = @ \cup {TranscodeCall(mov_file, TRUE, FALSE, transcoded_path)},
                  !.returned = @ \cup {<<mov_file, transcoded_path>>},
                  !.transcoded = @ \cup {mov_file}]
    /\ UNCHANGED << outVideos, pc, outcome, faults >>

\* TranscodeRun without the existence check of line 108.
TranscodeRunUnchecked(mov_file) ==
    LET transcoded_path == TranscodedPath(mov_file) IN
    /\ \E c \in VideoContents : outVideos' = Put(outVideos, transcoded_path.name, c)
    /\ futures' = Append(futures, transcoded_path)
    /\ idx' = idx + 1
    /\ hist' = [hist EXCEPT
                  !.calls = @ \cup {TranscodeCall(mov_file, VideoExists(transcoded_path),
                                                 TRUE, transcoded_path)},
                  !.returned = @ \cup {<<mov_file, transcoded_path>>},
                  !.ffmpeg = @ \cup {mov_file},
                  !.transcoded = @ \cup {mov_file}]
    /\ UNCHANGED << pc, outcome, faults >>

\* Lines 113-127: ffmpeg runs and exits 0, leaving the transcoded file.
TranscodeRun(mov_file) ==
    LET transcoded_path == TranscodedPath(mov_file) IN
    /\ ~VideoExists(transcoded_path)
    /\ \E c \in VideoContents : outVideos' = Put(outVideos, transcoded_path.name, c)
    /\ futures' = Append(futures, transcoded_path)
    /\ idx' = idx + 1
    /\ hist' = [hist EXCEPT
                  !.calls = @ \cup {TranscodeCall(mov_file, FALSE, TRUE, transcoded_path)},
                  !.returned = @ \cup {<<mov_file, transcoded_path>>},
                  !.ffmpeg = @ \cup {mov_file},
                  !.transcoded = @ \cup {mov_file}]
    /\ UNCHANGED << pc, outcome, faults >>

\* TranscodeFail with the exception caught in the loop of lines 76-79, which
\* goes on with the next video.
TranscodeFailContinues(mov_file) ==
    LET transcoded_path == TranscodedPath(mov_file) IN
    /\ ~VideoExists(transcoded_path)
    /\ faults < MaxFaults
    /\ faults' = faults + 1
    /\ \/ outVideos' = outVideos
       \/ \E c \in VideoContents : outVideos' = Put(outVideos, transcoded_path.name, c)
    /\ idx' = idx + 1
    /\ hist' = [hist EXCEPT
                  !.calls = @ \cup {TranscodeCall(mov_file, FALSE, TRUE, NoPath)},
                  !.ffmpeg = @ \cup {mov_file},
                  !.ffmpegFailed = @ \cup {mov_file}]
    /\ UNCHANGED << futures, pc, outcome >>

\* Line 125: ffmpeg exits non-zero; check=True raises CalledProcessError, which
\* nothing catches, so extract_frames_and_metadata ends with it. ffmpeg may
\* leave a partial output file behind.
TranscodeFail(mov_file) ==
    LET transcoded_path == TranscodedPath(mov_file) IN
    /\ ~VideoExists(transcoded_path)
    /\ faults < MaxFaults
    /\ faults' = faults + 1
    /\ \/ outVideos' = outVideos
       \/ \E c \in VideoContents : outVideos' = Put(outVideos, transcoded_path.name, c)
    /\ pc' = "idle"
    /\ outcome' = "raised"
    /\ hist' = [hist EXCEPT
                  !.calls = @ \cup {TranscodeCall(mov_file, FALSE, TRUE, NoPath)},
                  !.ffmpeg = @ \cup {mov_file},
                  !.ffmpegFailed = @ \cup {mov_file}]
    /\ UNCHANGED << futures, idx >>

TranscodeVideo(mov_file) ==
    \/ TranscodeExisting(mov_file)
    \/ TranscodeRun(mov_file)
    \/ TranscodeFail(mov_file)

\* Lines 76-79: one iteration of the first loop.
TranscodeNext ==
    /\ pc = "transcode"
    /\ idx <= Len(video_files)
    /\ TranscodeVideo(InputPath(video_files[idx]))
    /\ UNCHANGED << input_files, output_folder, output_exists, image_format, use_multithreading, run, video_files,
                    framesDirs, metadataFiles, capState, capPos, frame_number >>

\* Line 81: the first loop is over and the second starts.
BeginProcessing ==
    /\ pc = "transcode"
    /\ idx > Len(video_files)
    /\ pc' = "process"
    /\ idx' = 1
    /\ UNCHANGED << input_files, output_folder, output_exists, image_format, use_multithreading, run, outcome,
                    video_files, futures, outVideos, framesDirs, metadataFiles,
                    capState, capPos, frame_number, faults, hist >>

\* --------------------------------------- frames_already_extracted, 129-150
\* frames_already_extracted with > for == at line 148.
FramesAlreadyExtractedGreater(video_path) ==
    LET video_name == Basename(video_path)
        frames_dir == FramesDirOf(video_name)
        metadata_file == MetadataFileOf(video_name)
    IN  IF frames_dir \notin DOMAIN framesDirs \/ metadata_file \notin DOMAIN metadataFiles
        THEN "False"
        ELSE LET metadata == metadataFiles[metadata_file]
                 expected_frames ==
                     IF metadata.kind = "ok" THEN metadata.total_frames ELSE 0
                 actual_frames == CountFrames(framesDirs[frames_dir], image_format)
             IN  CASE metadata.kind \in {"garbage", "unreadable"} -> "False"
                   [] metadata.kind = "nonobject" -> "AttributeError"
                   [] OTHER -> IF actual_frames > expected_frames THEN "True" ELSE "False"

\* frames_already_extracted taking a total_frames of 0 for not extracted.
FramesAlreadyExtractedNonZero(video_path) ==
    LET video_name == Basename(video_path)
        frames_dir == FramesDirOf(video_name)
        metadata_file == MetadataFileOf(video_name)
    IN  IF frames_dir \notin DOMAIN framesDirs \/ metadata_file \notin DOMAIN metadataFiles
        THEN "False"
        ELSE LET metadata == metadataFiles[metadata_file]
                 expected_frames ==
                     IF metadata.kind = "ok" THEN metadata.total_frames ELSE 0
                 actual_frames == CountFrames(framesDirs[frames_dir], image_format)
             IN  CASE metadata.kind \in {"garbage", "unreadable"} -> "False"
                   [] metadata.kind = "nonobject" -> "AttributeError"
                   [] OTHER -> IF expected_frames > 0 /\ actual_frames = expected_frames
                               THEN "True" ELSE "False"

\* frames_already_extracted without the comparison of line 148: true whenever
\* the frames directory and a metadata object are there.
FramesAlreadyExtractedNoCount(video_path) ==
    LET video_name == Basename(video_path)
        frames_dir == FramesDirOf(video_name)
        metadata_file == MetadataFileOf(video_name)
    IN  IF frames_dir \notin DOMAIN framesDirs \/ metadata_file \notin DOMAIN metadataFiles
        THEN "False"
        ELSE LET metadata == metadataFiles[metadata_file]
             IN  CASE metadata.kind \in {"garbage", "unreadable"} -> "False"
                   [] metadata.kind = "nonobject" -> "AttributeError"
                   [] OTHER -> "True"

\* The answer of frames_already_extracted(video_path): "True", "False", or
\* the exception it raises. json.load raises JSONDecodeError on text that is
\* not JSON and open/read raise OSError, both caught at line 149; .get on a
\* JSON value that is no object raises AttributeError, which is not caught;
\* .get("total_frames", 0) is 0 on an object without the field.
FramesAlreadyExtracted(video_path) ==
    LET video_name == Basename(video_path)
        frames_dir == FramesDirOf(video_name)
        metadata_file == MetadataFileOf(video_name)
    IN  IF frames_dir \notin DOMAIN framesDirs \/ metadata_file \notin DOMAIN metadataFiles
        THEN "False"
        ELSE LET metadata == metadataFiles[metadata_file]
                 expected_frames ==
                     IF metadata.kind = "ok" THEN metadata.total_frames ELSE 0
                 actual_frames == CountFrames(framesDirs[frames_dir], image_format)
             IN  CASE metadata.kind \in {"garbage", "unreadable"} -> "False"
                   [] metadata.kind = "nonobject" -> "AttributeError"
                   [] OTHER -> IF actual_frames = expected_frames THEN "True" ELSE "False"

\* ------------------------------------------------- process_video, 152-211
\* The content VideoCapture(video_path) decodes: a missing file does not open.
Content(video_path) ==
    IF VideoExists(video_path) THEN outVideos[video_path.name] ELSE Unopenable

\* The record of a process_video call that has not stored a frame yet.
JobRecord(mov_file, phase) == [path |-> Basename(mov_file), phase |-> phase, log |-> <<>>]

\* Lines 170-172: the frames were already extracted and the video is skipped.
ProcessSkip(mov_file) ==
    /\ FramesAlreadyExtracted(VideoPath(mov_file)) = "True"
    /\ idx' = idx + 1
    /\ hist' = [hist EXCEPT !.skipped = @ \cup {Basename(mov_file)},
                            !.processed = @ \cup {Basename(mov_file)},
                            !.job = JobRecord(mov_file, "skipped")]
    /\ UNCHANGED << pc, outcome, framesDirs, metadataFiles, capState, capPos, frame_number,
                    faults >>

\* Line 170: frames_already_extracted raises and the run ends with the exception.
ProcessCheckRaises(mov_file) ==
    /\ FramesAlreadyExtracted(VideoPath(mov_file)) = "AttributeError"
    /\ pc' = "idle"
    /\ outcome' = "raised"
    /\ hist' = [hist EXCEPT !.job = JobRecord(mov_file, "raised")]
    /\ UNCHANGED << idx, framesDirs, metadataFiles, capState, capPos, frame_number, faults >>

\* The frames directories after lines 176-179.
WithFramesDir(mov_file_name) ==
    IF FramesDirOf(mov_file_name) \in DOMAIN framesDirs
    THEN framesDirs
    ELSE Put(framesDirs, FramesDirOf(mov_file_name), <<>>)

\* ProcessOpen without the write of the metadata file, lines 188-192.
ProcessOpenNoMetadata(mov_file) ==
    LET video_path == VideoPath(mov_file)
        mov_file_name == Basename(mov_file)
        c == Content(video_path)
    IN  /\ FramesAlreadyExtracted(video_path) = "False"
        /\ capState' = IF c.opens THEN "open" ELSE "unopened"
        /\ capPos' = 0
        /\ framesDirs' = WithFramesDir(mov_file_name)
        /\ frame_number' = 0
        /\ pc' = "extract"
        /\ hist' = [hist EXCEPT !.job = JobRecord(mov_file, "running")]
        /\ UNCHANGED << idx, outcome, faults, metadataFiles >>

\* ProcessOpen with a check of the capture after line 175 that raises when the
\* stream did not open.
ProcessOpenRaises(mov_file) ==
    LET video_path == VideoPath(mov_file)
        mov_file_name == Basename(mov_file)
        c == Content(video_path)
        metadata == MetadataRecord(CapFrameCount(c), CapFps(c), CapPosMsec(c, 0))
    IN  /\ FramesAlreadyExtracted(video_path) = "False"
        /\ capState' = IF c.opens THEN "open" ELSE "unopened"
        /\ capPos' = 0
        /\ frame_number' = 0
        /\ IF c.opens
           THEN /\ framesDirs' = WithFramesDir(mov_file_name)
                /\ metadataFiles' = Put(metadataFiles, MetadataFileOf(mov_file_name), metadata)
                /\ pc' = "extract"
                /\ hist' = [hist EXCEPT
                              !.metaWrites = @ \cup {[job |-> idx, path |-> mov_file_name]},
                              !.job = JobRecord(mov_file, "running")]
                /\ UNCHANGED outcome
           ELSE /\ pc' = "idle"
                /\ outcome' = "raised"
                /\ hist' = [hist EXCEPT !.job = JobRecord(mov_file, "raised")]
                /\ UNCHANGED << framesDirs, metadataFiles >>
        /\ UNCHANGED << idx, faults >>

\* Lines 175-192: the capture is created, the frames directory made, and the
\* metadata read from the capture is written.
ProcessOpen(mov_file) ==
    LET video_path == VideoPath(mov_file)
        mov_file_name == Basename(mov_file)
        c == Content(video_path)
        metadata == MetadataRecord(CapFrameCount(c), CapFps(c), CapPosMsec(c, 0))
    IN  /\ FramesAlreadyExtracted(video_path) = "False"
        /\ capState' = IF c.opens THEN "open" ELSE "unopened"
        /\ capPos' = 0
        /\ framesDirs' = WithFramesDir(mov_file_name)
        /\ frame_number' = 0
        /\ metadataFiles' = Put(metadataFiles, MetadataFileOf(mov_file_name), metadata)
        /\ pc' = "extract"
        /\ hist' = [hist EXCEPT !.metaWrites = @ \cup {[job |-> idx, path |-> mov_file_name]},
                                !.job = JobRecord(mov_file, "running")]
        /\ UNCHANGED << idx, outcome, faults >>

\* Line 191-192: writing the metadata file fails with OSError, which nothing
\* catches; the file is left as it was or truncated.
ProcessMetadataFails(mov_file) ==
    LET video_path == VideoPath(mov_file)
        mov_file_name == Basename(mov_file)
        c == Content(video_path)
    IN  /\ FramesAlreadyExtracted(video_path) = "False"
        /\ faults < MaxFaults
        /\ faults' = faults + 1
        /\ capState' = IF c.opens THEN "open" ELSE "unopened"
        /\ capPos' = 0
        /\ framesDirs' = WithFramesDir(mov_file_name)
        /\ frame_number' = 0
        /\ \/ metadataFiles' = metadataFiles
           \/ metadataFiles' = Put(metadataFiles, MetadataFileOf(mov_file_name),
                                   ForeignMetadata("garbage"))
        /\ pc' = "idle"
        /\ outcome' = "raised"
        /\ hist' = [hist EXCEPT !.job = JobRecord(mov_file, "raised")]
        /\ UNCHANGED idx

ProcessVideo(mov_file) ==
    \/ ProcessSkip(mov_file)
    \/ ProcessCheckRaises(mov_file)
    \/ ProcessOpen(mov_file)
    \/ ProcessMetadataFails(mov_file)

\* Lines 82-83: one iteration of the second loop enters process_video.
ProcessNext ==
    /\ pc = "process"
    /\ idx <= Len(futures)
    /\ ProcessVideo(futures[idx])
    /\ UNCHANGED << input_files, output_folder, output_exists, image_format, use_multithreading, run, video_files,
                    futures, outVideos >>

\* The event logged for one cv2.imwrite call of the running job.
WriteEvent(op, file, frame) == [op |-> op, file |-> file, frame |-> frame]

\* WriteFrame without the increment of line 206.
WriteFrameSameNumber(mov_file, frame) ==
    LET frames_folder == FramesDirOf(Basename(mov_file))
        frame_file == FrameFile(frame_number, image_format)
    IN  /\ framesDirs' = Put(framesDirs, frames_folder,
                             Put(framesDirs[frames_folder], frame_file, frame))
        /\ frame_number' = frame_number
        /\ hist' = [hist EXCEPT !.frameWrites = @ \cup {[job |-> idx, path |-> Basename(mov_file),
                                                           file |-> frame_file]},
                                !.job.log = Append(@, WriteEvent("write", frame_file, frame))]
        /\ UNCHANGED << pc, outcome, faults >>

\* Lines 196-207, cap.read() returned a frame: cv2.imwrite stores it.
WriteFrame(mov_file, frame) ==
    LET frames_folder == FramesDirOf(Basename(mov_file))
        frame_file == FrameFile(frame_number, image_format)
    IN  /\ framesDirs' = Put(framesDirs, frames_folder,
                             Put(framesDirs[frames_folder], frame_file, frame))
        /\ frame_number' = frame_number + 1
        /\ hist' = [hist EXCEPT !.frameWrites = @ \cup {[job |-> idx, path |-> Basename(mov_file),
                                                           file |-> frame_file]},
                                !.job.log = Append(@, WriteEvent("write", frame_file, frame))]
        /\ UNCHANGED << pc, outcome, faults >>

\* Lines 203-206: cv2.imwrite returns False (the file could not be written);
\* the return value is not looked at and the loop goes on.
WriteFrameRefused(mov_file, frame) ==
    LET frame_file == FrameFile(frame_number, image_format) IN
    /\ faults < MaxFaults
    /\ faults' = faults + 1
    /\ frame_number' = frame_number + 1
    /\ hist' = [hist EXCEPT !.job.log = Append(@, WriteEvent("refused", frame_file, frame))]
    /\ UNCHANGED << framesDirs, pc, outcome >>

\* Line 203: cv2.imwrite raises cv2.error, which nothing catches: process_video
\* and the run end with it, and line 209 is not reached.
WriteFrameRaises(mov_file, frame) ==
    LET frame_file == FrameFile(frame_number, image_format) IN
    /\ faults < MaxFaults
    /\ faults' = faults + 1
    /\ pc' = "idle"
    /\ outcome' = "raised"
    /\ hist' = [hist EXCEPT !.job.phase = "raised",
                            !.job.log = Append(@, WriteEvent("raised", frame_file, frame))]
    /\ UNCHANGED << framesDirs, frame_number >>

ImWrite(mov_file, frame) ==
    \/ WriteFrame(mov_file, frame)
    \/ WriteFrameRefused(mov_file, frame)
    \/ WriteFrameRaises(mov_file, frame)

\* cap.read() has a frame to return: the capture opened and is not at its end.
CanRead(mov_file) ==
    capState = "open" /\ capPos < Content(VideoPath(mov_file)).frames

\* Lines 195-207: one iteration of the read loop; the frame read is the one at
\* the capture's position.
ExtractFrame ==
    /\ pc = "extract"
    /\ CanRead(futures[idx])
    /\ capPos' = capPos + 1
    /\ ImWrite(futures[idx], capPos)
    /\ UNCHANGED << input_files, output_folder, output_exists, image_format, use_multithreading, run, video_files,
                    futures, idx, outVideos, metadataFiles, capState >>

\* Whether every cv2.imwrite of the logged job stored its frame.
AllWritten(log) == \A i \in 1..Len(log) : log[i].op = "write"

\* Lines 197-198 and 209-211: cap.read() returns no frame, the loop ends, the
\* capture is released and the extraction is logged.
ExtractEnd ==
    /\ pc = "extract"
    /\ ~CanRead(futures[idx])
    /\ capState' = "released"
    /\ pc' = "process"
    /\ idx' = idx + 1
    /\ hist' = [hist EXCEPT
                  !.processed = @ \cup {Basename(futures[idx])},
                  !.extractedNow = @ \cup {[path |-> Basename(futures[idx]),
                                           clean |-> AllWritten(hist.job.log)]},
                  !.job.phase = "done"]
    /\ UNCHANGED << input_files, output_folder, output_exists, image_format, use_multithreading, run, outcome, video_files,
                    futures, outVideos, framesDirs, metadataFiles, capPos,
                    frame_number, faults >>

\* Lines 195-207: the process is interrupted or killed in the read loop of
\* process_video (KeyboardInterrupt, a crash, power loss): the run ends there,
\* with the files written so far and nothing released. midway tells whether
\* the capture had a frame left to return, agree whether the files left
\* satisfy the comparison of frames_already_extracted.
Interrupt ==
    /\ pc = "extract"
    /\ faults < MaxFaults
    /\ faults' = faults + 1
    /\ pc' = "idle"
    /\ outcome' = "raised"
    /\ hist' = [hist EXCEPT
                  !.interruptedNow = {[path |-> Basename(futures[idx]),
                                       midway |-> CanRead(futures[idx]),
                                       agree |-> CountsAgree(Basename(futures[idx]))]},
                  !.job.phase = "interrupted"]
    /\ UNCHANGED << input_files, output_folder, output_exists, image_format, use_multithreading, run,
                    video_files, futures, idx, outVideos, framesDirs, metadataFiles,
                    capState, capPos, frame_number >>

\* Line 84: the second loop is over and extract_frames_and_metadata returns.
FinishRun ==
    /\ pc = "process"
    /\ idx > Len(futures)
    /\ pc' = "idle"
    /\ outcome' = "returned"
    /\ UNCHANGED << input_files, output_folder, output_exists, image_format, use_multithreading, run, video_files,
                    futures, idx, outVideos, framesDirs, metadataFiles, capState,
                    capPos, frame_number, faults, hist >>

\* ------------------------------------------- the output folder's other users
\* The recorded extractions an outside change to path p leaves standing; the
\* record of the last job describes the output as the job left it, and is
\* dropped by any outside change.
Untouched(records, p) == {r \in records : r.path # p}

\* Between two runs somebody replaces a metadata file by one the extractor
\* did not write.
EditMetadata ==
    /\ pc = "idle"
    /\ run < MaxRuns
    /\ faults < MaxFaults
    /\ \E p \in DOMAIN outVideos, kind \in MetadataKinds \ {"ok"} :
         /\ MetadataFileOf(p) \in DOMAIN metadataFiles
         /\ metadataFiles' = Put(metadataFiles, MetadataFileOf(p), ForeignMetadata(kind))
         /\ hist' = [hist EXCEPT !.extractedNow = Untouched(@, p),
                                 !.extractedBefore = Untouched(@, p),
                                 !.interruptedNow = Untouched(@, p),
                                 !.job = NoJob]
    /\ faults' = faults + 1
    /\ UNCHANGED << input_files, output_folder, output_exists, image_format, use_multithreading, run, pc, outcome,
                    video_files, futures, idx, outVideos, framesDirs, capState,
                    capPos, frame_number >>

\* Between two runs somebody deletes a metadata file.
DeleteMetadata ==
    /\ pc = "idle"
    /\ run < MaxRuns
    /\ faults < MaxFaults
    /\ \E p \in DOMAIN outVideos :
         /\ MetadataFileOf(p) \in DOMAIN metadataFiles
         /\ metadataFiles' = Drop(metadataFiles, MetadataFileOf(p))
         /\ hist' = [hist EXCEPT !.extractedNow = Untouched(@, p),
                                 !.extractedBefore = Untouched(@, p),
                                 !.interruptedNow = Untouched(@, p),
                                 !.job = NoJob]
    /\ faults' = faults + 1
    /\ UNCHANGED << input_files, output_folder, output_exists, image_format, use_multithreading, run, pc, outcome,
                    video_files, futures, idx, outVideos, framesDirs, capState,
                    capPos, frame_number >>

\* Between two runs somebody deletes one file of a frames directory.
DeleteFrame ==
    /\ pc = "idle"
    /\ run < MaxRuns
    /\ faults < MaxFaults
    /\ \E p \in DOMAIN outVideos :
         /\ FramesDirOf(p) \in DOMAIN framesDirs
         /\ \E n \in DOMAIN framesDirs[FramesDirOf(p)] :
              framesDirs' = Put(framesDirs, FramesDirOf(p), Drop(framesDirs[FramesDirOf(p)], n))
         /\ hist' = [hist EXCEPT !.extractedNow = Untouched(@, p),
                                 !.extractedBefore = Untouched(@, p),
                                 !.interruptedNow = Untouched(@, p),
                                 !.job = NoJob]
    /\ faults' = faults + 1
    /\ UNCHANGED << input_files, output_folder, output_exists, image_format, use_multithreading, run, pc, outcome,
                    video_files, futures, idx, outVideos, metadataFiles, capState,
                    capPos, frame_number >>

\* Between two runs somebody puts a file that is not of the image format into
\* a frames directory.
AddOtherFile ==
    /\ pc = "idle"
    /\ run < MaxRuns
    /\ faults < MaxFaults
    /\ \E p \in DOMAIN outVideos :
         /\ FramesDirOf(p) \in DOMAIN framesDirs
         /\ FrameFile(0, OtherFormat) \notin DOMAIN framesDirs[FramesDirOf(p)]
         /\ framesDirs' = Put(framesDirs, FramesDirOf(p),
                              Put(framesDirs[FramesDirOf(p)], FrameFile(0, OtherFormat), 0))
         /\ hist' = [hist EXCEPT !.extractedNow = Untouched(@, p),
                                 !.extractedBefore = Untouched(@, p),
                                 !.interruptedNow = Untouched(@, p),
                                 !.job = NoJob]
    /\ faults' = faults + 1
    /\ UNCHANGED << input_files, output_folder, output_exists, image_format, use_multithreading, run, pc, outcome,
                    video_files, futures, idx, outVideos, metadataFiles, capState,
                    capPos, frame_number >>

Next ==
    \/ StartRun
    \/ TranscodeNext
    \/ BeginProcessing
    \/ ProcessNext
    \/ ExtractFrame
    \/ ExtractEnd
    \/ Interrupt
    \/ FinishRun
    \/ EditMetadata
    \/ DeleteMetadata
    \/ DeleteFrame
    \/ AddOtherFile

Spec == Init /\ [][Next]_vars

\* The same program for either value of use_multithreading.
SpecAnyThreading == InitAnyThreading /\ [][Next]_vars

\* ------------------------------------------- transcode_video called alone
\* The input folders transcode_video is called alone on: two videos with one
\* stem, and a video beside a file with the name derived for it.
TranscodeFolders ==
    { {<<"a", ".mov">>, <<"a", ".mp4">>},
      {<<"a", ".mov">>, <<"a", "_transcoded", ".mp4">>} }

\* What the files of the input folder hold, where that matters: ffmpeg reads
\* them, and its result does not depend on this model of them.
SourceContent == Unopenable

\* An extractor whose output folder is the input folder or another one. When
\* it is the input folder, the files of the output folder are the input files.
InitTranscode ==
    /\ input_files \in TranscodeFolders
    /\ output_folder \in OutputFolders \cup {InputFolder}
    /\ output_exists = (output_folder = InputFolder)
    /\ image_format \in ImageFormats
    /\ use_multithreading = FALSE
    /\ run = 0
    /\ pc = "idle"
    /\ outcome = "none"
    /\ video_files = <<>>
    /\ futures = <<>>
    /\ idx = 1
    /\ outVideos = IF output_folder = InputFolder
                   THEN [f \in input_files |-> SourceContent]
                   ELSE <<>>
    /\ framesDirs = <<>>
    /\ metadataFiles = <<>>
    /\ capState = "none"
    /\ capPos = 0
    /\ frame_number = 0
    /\ faults = 0
    /\ hist = [calls |-> {}, returned |-> {}, ffmpeg |-> {}, ffmpegFailed |-> {},
               transcoded |-> {}, processed |-> {}, skipped |-> {},
               metaWrites |-> {}, frameWrites |-> {}, extractedNow |-> {},
               extractedBefore |-> {}, complete |-> {},
               interruptedNow |-> {}, interruptedBefore |-> {}, job |-> NoJob]

\* transcode_video(mov_file) called from outside the batch on a video of the
\* input folder; futures collects what the calls returned, and faults counts
\* those that raised. A file written to an output folder that is the input
\* folder is a file of the input folder.
TranscodeAlone ==
    /\ pc = "idle"
    /\ Len(futures) + faults < MaxCalls
    /\ \E f \in {g \in input_files : IsVideoFile(g)} : TranscodeVideo(InputPath(f))
    /\ input_files' = IF output_folder = InputFolder THEN DOMAIN outVideos' ELSE input_files
    /\ UNCHANGED << output_folder, output_exists, image_format, use_multithreading, run,
                    video_files, framesDirs, metadataFiles, capState, capPos, frame_number >>

SpecTranscode == InitTranscode /\ [][TranscodeAlone]_vars

\* =================================================================== claims

\* The image files the last process_video call of the run has stored.
FilesOfJob == { hist.job.log[i].file :
                  i \in {j \in 1..Len(hist.job.log) : hist.job.log[j].op = "write"} }

\* C1: after process_video has run to its end on a video with N decodable
\* frames, the image files this call stored are exactly frame_0 .. frame_{N-1}
\* in the image format, and they are in the frames directory.
C1_ExactlyNFrames ==
    hist.job.phase = "done" =>
        LET N == outVideos[hist.job.path].frames IN
        /\ FilesOfJob = {FrameFile(k, image_format) : k \in 0..(N - 1)}
        /\ FilesOfJob \subseteq DOMAIN framesDirs[FramesDirOf(hist.job.path)]

\* Where the running extractor keeps the video with the name p, and the name
\* of the file transcode_video derives for the input file f.
OutPath(p) == [dir |-> output_folder, name |-> p]
OutName(f) == TranscodedPath(InputPath(f)).name

\* The videos some job of the running call wrote a metadata or a frame file for.
WrittenPaths == {w.path : w \in hist.metaWrites} \cup {w.path : w \in hist.frameWrites}

\* What a run that is a no-op for the video at path p looks like: the check
\* answered true whenever process_video was called on p, nothing was written
\* for p, and ffmpeg was not invoked for an input transcoded to p.
NoOpFor(p) ==
    /\ p \in hist.processed => p \in hist.skipped
    /\ hist.job.path = p => hist.job.phase = "skipped"
    /\ p \notin WrittenPaths
    /\ \A f \in hist.ffmpeg : TranscodedPath(f).name # p

\* C2 as stated: a later run is a no-op for every video an earlier run
\* extracted to the end (the folders unchanged in between).
C2_RerunIsNoOp ==
    \A r \in hist.extractedBefore : NoOpFor(r.path)

\* C2 as amended: a later run is a no-op for every video an earlier run
\* extracted to the end and whose frames directory holds, when the later run
\* starts, as many image files as its metadata records in total_frames.
C2_RerunOfCompleteIsNoOp ==
    \A p \in hist.complete : NoOpFor(p)

\* A later run has skipped a video that an earlier run extracted, frames included.
C2_Witness ==
    \E p \in hist.complete :
        /\ p \in hist.skipped
        /\ pc = "idle" /\ outcome = "returned"
        /\ CountFrames(framesDirs[FramesDirOf(p)], image_format) > 0
        /\ \E f \in hist.transcoded : TranscodedPath(f).name = p

\* The video files the running call discovered.
Discovered == {video_files[i] : i \in 1..Len(video_files)}

\* C3: when the call is over and ffmpeg failed for one video of the batch, the
\* call has not ended with an exception and every other video was transcoded
\* and went through process_video.
C3_FailureIsolated ==
    (pc = "idle" /\ outcome # "none" /\ hist.ffmpegFailed # {}) =>
        /\ outcome = "returned"
        /\ \A f \in {g \in Discovered : InputPath(g) \notin hist.ffmpegFailed} :
             /\ InputPath(f) \in hist.transcoded
             /\ OutName(f) \in hist.processed

\* C4: a transcode_video call that finds the derived path existing returns it
\* without running ffmpeg, and a call for an input that an earlier call
\* returned for returns the same path, again without running ffmpeg.
C4_TranscodeIdempotent ==
    \A c \in hist.calls :
        /\ c.existed => (~c.invoked /\ c.result = TranscodedPath(c.input))
        /\ c.again => /\ ~c.invoked
                      /\ \A r \in hist.returned : r[1] = c.input => r[2] = c.result

\* transcode_video was called a second time for an input it had run ffmpeg for.
C4_Witness ==
    \E c, d \in hist.calls :
        /\ c.input = d.input
        /\ d.invoked /\ d.result # NoPath
        /\ c.again /\ c.existed /\ c.result = d.result

\* C5: frames_already_extracted answers true exactly when the frames directory
\* and the metadata file exist and the directory holds as many image files as
\* the metadata records in total_frames.
C5_TrueIffCountsEqual ==
    \A p \in DOMAIN outVideos :
        (FramesAlreadyExtracted(OutPath(p)) = "True") <=> CountsAgree(p)

\* C6: on a metadata file that does not parse, lacks total_frames or cannot be
\* read, frames_already_extracted answers false: it neither raises nor answers
\* true, whatever the frames directory holds.
C6_CorruptMeansIncomplete ==
    \A p \in DOMAIN outVideos :
        (/\ MetadataFileOf(p) \in DOMAIN metadataFiles
         /\ metadataFiles[MetadataFileOf(p)].kind # "ok")
        => FramesAlreadyExtracted(OutPath(p)) = "False"

\* C7: outside the read loop of process_video no capture is open: every path
\* out of process_video has released the capture it opened.
C7_CaptureReleased ==
    pc # "extract" => capState # "open"

\* The positions in the job's log at which cv2.imwrite failed.
FailedWrites == {i \in 1..Len(hist.job.log) : hist.job.log[i].op # "write"}

\* C8: once cv2.imwrite has failed for a frame, the job writes no later frame
\* and is not recorded as extracted.
C8_WriteFailureIsFatal ==
    \A i \in FailedWrites :
        /\ \A j \in (i + 1)..Len(hist.job.log) : hist.job.log[j].op # "write"
        /\ hist.job.phase # "done"

\* C9: no path is written by the jobs of two different videos of one batch.
C9_JobsWriteDisjointPaths ==
    /\ \A v, w \in hist.metaWrites : v.path = w.path => v.job = w.job
    /\ \A v, w \in hist.frameWrites :
         (v.path = w.path /\ v.file = w.file) => v.job = w.job

\* C10: the i-th cv2.imwrite call of a job is for frame_{i-1} and is given the
\* (i-1)-th frame the capture returned; frame_number counts the calls made, so
\* no file name is used twice; and each file stored holds that frame.
C10_FramesInDecodeOrder ==
    /\ \A i \in 1..Len(hist.job.log) :
         /\ hist.job.log[i].file = FrameFile(i - 1, image_format)
         /\ hist.job.log[i].frame = i - 1
         /\ hist.job.log[i].op = "write" =>
              framesDirs[FramesDirOf(hist.job.path)][hist.job.log[i].file] = i - 1
    /\ hist.job.phase = "running" => frame_number = Len(hist.job.log)

\* A job has stored the last of MaxFrames frames, each under its own index.
C10_Witness ==
    /\ Len(hist.job.log) = MaxFrames
    /\ MaxFrames > 1
    /\ AllWritten(hist.job.log)
    /\ hist.job.phase = "done"

\* The metadata process_video writes for a capture that did not open.
ZeroMetadata == MetadataRecord(0, 0, 0)

\* A step in which process_video creates a capture that does not open, with no
\* failure of the file system in it.
C11_OpenFails == capState # "unopened" /\ capState' = "unopened" /\ faults' = faults

\* C11: when the video stream fails to open, process_video does not raise: it
\* writes the metadata with total_frames, fps and duration 0 and goes on to the
\* read loop, whose only step (if the process is not killed) stores no frame
\* file, changes no metadata, releases the capture and returns to the caller's
\* loop without an exception.
C11_OpenFailureDegrades ==
    [][ /\ C11_OpenFails =>
             /\ pc' = "extract" /\ outcome' = outcome
             /\ hist'.job.phase = "running"
             /\ metadataFiles'[MetadataFileOf(hist'.job.path)] = ZeroMetadata
        /\ (pc = "extract" /\ capState = "unopened" /\ faults' = faults) =>
             /\ pc' = "process" /\ outcome' = outcome
             /\ capState' = "released"
             /\ framesDirs' = framesDirs /\ metadataFiles' = metadataFiles
             /\ hist'.job.phase = "done" /\ hist'.job.log = <<>>
             /\ hist'.frameWrites = hist.frameWrites ]_vars

\* process_video has returned for a transcoded file that is there and does not
\* open: zero-valued metadata, an empty frames directory, no exception.
C11_Witness ==
    /\ hist.job.phase = "done" /\ outcome # "raised"
    /\ hist.job.path \in DOMAIN outVideos
    /\ IsAbs(OutPath(hist.job.path))
    /\ ~outVideos[hist.job.path].opens
    /\ metadataFiles[MetadataFileOf(hist.job.path)] = ZeroMetadata
    /\ framesDirs[FramesDirOf(hist.job.path)] = <<>>

\* The video of the scenario and the content of its transcoded file: as many
\* frames as reported, 30 frames per second, 2000 ms.
Clip == <<"clip", ".mov">>
ClipContent ==
    [opens |-> TRUE, frames |-> MaxFrames, count |-> MaxFrames, fps |-> 30, duration |-> 2000]

\* C12: after a first batch run without failures on an input folder holding
\* the one video clip.mov (N frames, 30 fps, 2000 ms), the output folder holds
\* the directory clip.mov_frames with exactly frame_0.jpg .. frame_{N-1}.jpg and
\* the file clip.mov_metadata.json with total_frames N, fps 30, duration 2000.
C12_ClipScenario ==
    (/\ input_files = {Clip} /\ IsAbs(OutPath(Clip))
     /\ run = 1 /\ pc = "idle" /\ outcome = "returned" /\ faults = 0
     /\ outVideos[OutName(Clip)] = ClipContent)
    => /\ FramesDirOf(Clip) \in DOMAIN framesDirs
       /\ MetadataFileOf(Clip) \in DOMAIN metadataFiles
       /\ DOMAIN framesDirs[FramesDirOf(Clip)]
            = {FrameFile(k, "jpg") : k \in 0..(MaxFrames - 1)}
       /\ metadataFiles[MetadataFileOf(Clip)] = MetadataRecord(MaxFrames, 30, 2000)

\* C12 for the names the code derives (those of the transcoded file): the
\* frames are as the scenario says, the metadata is not.
C12_ClipScenarioTranscodedNames ==
    (/\ input_files = {Clip} /\ IsAbs(OutPath(Clip))
     /\ run = 1 /\ pc = "idle" /\ outcome = "returned" /\ faults = 0
     /\ outVideos[OutName(Clip)] = ClipContent)
    => /\ DOMAIN framesDirs = {FramesDirOf(OutName(Clip))}
       /\ DOMAIN metadataFiles = {MetadataFileOf(OutName(Clip))}
       /\ DOMAIN framesDirs[FramesDirOf(OutName(Clip))]
            = {FrameFile(k, "jpg") : k \in 0..(MaxFrames - 1)}
       /\ metadataFiles[MetadataFileOf(OutName(Clip))] = MetadataRecord(MaxFrames, 30, 0)

\* A process_video call is in progress, and another video of the batch waits
\* for its own.
JobInProgress == pc = "extract"
JobWaiting == idx < Len(futures)

\* C13: the execution model follows use_multithreading. When it is false, no
\* job of another video can start while one is in progress; when it is true,
\* the job of a waiting video can start while another job is in progress.
C13_ExecutionFollowsSetting ==
    (JobInProgress /\ JobWaiting) => (use_multithreading <=> ENABLED ProcessNext)

\* The files of the output folder that a step has created, and whether it has
\* left every file that was there as it was.
NewFiles == DOMAIN outVideos' \ DOMAIN outVideos
OldFilesKept == \A n \in DOMAIN outVideos : n \in DOMAIN outVideos' /\ outVideos'[n] = outVideos[n]

\* C14: for every video of the input folder, the path transcode_video derives
\* differs from the path of the video, also when the output folder is the input
\* folder; and a call creates at most one file, named <stem>_transcoded.mp4
\* after a video of the input folder, and replaces or removes no file that was
\* there, the source videos among them.
C14_SourceNotWritten ==
    /\ [](\A f \in input_files : TranscodedPath(InputPath(f)) # InputPath(f))
    /\ [][ /\ Cardinality(NewFiles) <= 1
           /\ \A n \in NewFiles : \E f \in input_files :
                n = SplitextRoot(f) \o <<"_transcoded", ".mp4">>
           /\ OldFilesKept
           /\ input_files \subseteq input_files' ]_vars

\* In a folder that is input and output folder, transcode_video has run ffmpeg
\* for one video and found the derived file of another: three files are there,
\* the two sources with the content they had.
C14_Witness ==
    /\ output_folder = InputFolder
    /\ \E c, d \in hist.calls :
         /\ c.invoked /\ c.result # NoPath /\ c.result.name \in DOMAIN outVideos
         /\ d.existed /\ ~d.invoked
         /\ c.input # d.input
    /\ Cardinality(DOMAIN outVideos) = 3

\* What cap.get returns for the three properties right after the capture of
\* the job's video is created, as a metadata record.
OpenTimeMetadata(video_name) ==
    LET c == Content(VideoPath(OutPath(video_name))) IN
    MetadataRecord(CapFrameCount(c), CapFps(c), CapPosMsec(c, 0))

\* C15: whenever the running or finished process_video call has got a frame
\* from the capture (and so before any frame file of the call is written), the
\* metadata file of its video exists and holds the frame count, frame rate and
\* duration values read from the capture when it was opened.
C15_MetadataBeforeFrames ==
    (hist.job.phase \in {"running", "done", "raised", "interrupted"}
        /\ Len(hist.job.log) > 0) =>
        /\ MetadataFileOf(hist.job.path) \in DOMAIN metadataFiles
        /\ metadataFiles[MetadataFileOf(hist.job.path)] = OpenTimeMetadata(hist.job.path)

\* The first of several frames has been written, the read loop is not over,
\* and the metadata with the reported frame count is there.
C15_Witness ==
    /\ pc = "extract" /\ CanRead(futures[idx])
    /\ Len(hist.job.log) = 1 /\ hist.job.log[1].op = "write"
    /\ metadataFiles[MetadataFileOf(hist.job.path)].total_frames > 1

\* What the run after an interrupted extraction of the video at path p does:
\* if process_video has returned for p, it has not only skipped it but written
\* its metadata again; and once an extraction of p in which every cv2.imwrite
\* stored its frame is over, this run has written every frame of the video,
\* from frame_0 on, and all of them are in its frames directory.
ExtractedAgain(p) ==
    /\ p \in hist.processed => p \in {w.path : w \in hist.metaWrites}
    /\ [path |-> p, clean |-> TRUE] \in hist.extractedNow =>
         \A k \in 0..(outVideos[p].frames - 1) :
             /\ \E w \in hist.frameWrites :
                    w.path = p /\ w.file = FrameFile(k, image_format)
             /\ FrameFile(k, image_format) \in DOMAIN framesDirs[FramesDirOf(p)]

\* C16 as stated: a video whose extraction the run before was interrupted in,
\* before the capture had returned its last frame, is extracted again.
C16_InterruptedIsExtractedAgain ==
    \A r \in hist.interruptedBefore : r.midway => ExtractedAgain(r.path)

\* C16 as amended: the same for the videos whose frames directory held, when
\* the run was interrupted, another number of image files than the total_frames
\* of the metadata.
C16_InterruptedUnequalIsExtractedAgain ==
    \A r \in hist.interruptedBefore : (r.midway /\ ~r.agree) => ExtractedAgain(r.path)

\* A video interrupted after its first frame has been extracted again to the
\* end by the next run, which has written all its frames.
C16_Witness ==
    \E r \in hist.interruptedBefore :
        /\ r.midway /\ ~r.agree
        /\ [path |-> r.path, clean |-> TRUE] \in hist.extractedNow
        /\ outVideos[r.path].frames = MaxFrames
        /\ CountFrames(framesDirs[FramesDirOf(r.path)], image_format) = MaxFrames
        /\ pc = "idle" /\ outcome = "returned"

\* A process_video call of the running extract_frames_and_metadata has started.
ProcessingStarted ==
    \/ pc \in {"process", "extract"}
    \/ hist.processed # {}
    \/ hist.metaWrites # {} \/ hist.frameWrites # {}
    \/ hist.job.phase # "none"

\* C17: once a process_video call of a run has started, transcode_video has
\* returned in that run for every video the run discovered; and in a run in
\* which ffmpeg failed for a video, no process_video call has started and no
\* metadata or frame file has been written.
C17_TranscodeAllBeforeProcessing ==
    /\ ProcessingStarted => \A f \in Discovered : InputPath(f) \in hist.transcoded
    /\ hist.ffmpegFailed # {} =>
         /\ ~ProcessingStarted
         /\ pc = "idle" /\ outcome = "raised"

\* ffmpeg has transcoded one video and failed for the next: the run is over
\* with the first video's transcoded file and no frames directory at all.
C17_Witness ==
    /\ hist.ffmpegFailed # {} /\ hist.transcoded # {}
    /\ \E f \in hist.transcoded : f \in hist.ffmpeg
    /\ run = 1 /\ pc = "idle" /\ outcome = "raised"
    /\ DOMAIN outVideos # {} /\ framesDirs = <<>> /\ metadataFiles = <<>>

\* The videos an earlier run's process_video went through to the end without
\* its capture opening, their output not changed by anybody since.
FailedToOpenBefore ==
    {r.path : r \in {x \in hist.extractedBefore : ~Content(VideoPath(OutPath(x.path))).opens}}

\* C18: for a video whose job in an earlier run failed to open it, the output
\* is zero-valued metadata and a frames directory without image files, for
\* which frames_already_extracted answers true in every state of a later run:
\* the run skips the video, writes nothing for it and does not transcode it.
C18_FailedOpenIsSkippedForever ==
    \A p \in FailedToOpenBefore :
        /\ metadataFiles[MetadataFileOf(p)] = ZeroMetadata
        /\ CountFrames(framesDirs[FramesDirOf(p)], image_format) = 0
        /\ FramesAlreadyExtracted(VideoPath(OutPath(p))) = "True"
        /\ NoOpFor(p)

\* A second run has returned after skipping a transcoded file that is in the
\* output folder and did not open in the first run.
C18_Witness ==
    \E p \in FailedToOpenBefore :
        /\ p \in hist.skipped
        /\ p \in DOMAIN outVideos /\ IsAbs(OutPath(p))
        /\ framesDirs[FramesDirOf(p)] = <<>>
        /\ run > 1 /\ pc = "idle" /\ outcome = "returned"

\* The frame count the container of the video at path p reports to the capture
\* process_video creates, and the number of frames that capture decodes.
ReportedCount(p) == CapFrameCount(Content(VideoPath(OutPath(p))))
DecodedCount(p) == Content(VideoPath(OutPath(p))).frames

\* The last process_video call has run to its end, and it was the first to
\* write for its video: the frames directory was new when it started.
FreshJobDone ==
    /\ hist.job.phase = "done"
    /\ run = 1
    /\ Cardinality({w \in hist.metaWrites : w.path = hist.job.path}) = 1

\* What C19 says of the video at path p after its first extraction: the check
\* answers true exactly when the reported and the decoded count are equal.
TrueIffReportedIsDecoded(p) ==
    (FramesAlreadyExtracted(VideoPath(OutPath(p))) = "True")
        <=> (ReportedCount(p) = DecodedCount(p))

\* What C19 says of a later run for a video at path p whose two counts differ:
\* the video is not skipped, and its counts on disk do not come to agree.
NeverComplete(p) ==
    /\ p \notin hist.skipped
    /\ ~CountsAgree(p)

\* C19: after process_video has run to its end on a video into a new frames
\* directory, frames_already_extracted answers true exactly when the reported
\* frame count equals the number of frames decoded; and a video extracted by
\* an earlier run whose two counts differ is extracted again, never skipped,
\* by every later run, and never has as many image files as its total_frames.
C19_CompleteIffReportedIsDecoded ==
    /\ FreshJobDone => TrueIffReportedIsDecoded(hist.job.path)
    /\ \A r \in hist.extractedBefore :
         ReportedCount(r.path) # DecodedCount(r.path) => NeverComplete(r.path)

\* C19 for the extractions in which every cv2.imwrite stored its frame.
C19_WhenEveryWriteSucceeded ==
    /\ (FreshJobDone /\ AllWritten(hist.job.log)) => TrueIffReportedIsDecoded(hist.job.path)
    /\ \A r \in hist.extractedBefore :
         (r.clean /\ ReportedCount(r.path) # DecodedCount(r.path)) => NeverComplete(r.path)

====
